---- MODULE Spec2Model ----
(***************************************************************************)
(* A model of FalkorDBGraph (src/unnamed/part_002): the adapter object,   *)
(* the graph backend it queries through the falkordb driver, and the      *)
(* schema cache that refreshSchema fills from three introspection         *)
(* queries.                                                                *)
(*                                                                         *)
(* JavaScript values are modelled as follows.                              *)
(*  - a string is a TLA+ string; a list is a sequence;                     *)
(*  - an object used as a map (nodeProps, relProps) is the sequence of    *)
(*    its entries in insertion order, which is the order Object.entries   *)
(*    iterates (the keys are label and type names, never integer-like);   *)
(*  - a value that may be undefined carries a flag next to it (output,    *)
(*    hasProps, defined, hasData): TLC cannot compare a sequence with a   *)
(*    marker of another type.                                              *)
(***************************************************************************)
EXTENDS Naturals, Sequences, FiniteSets, TLC

\* ------------------------------------------------------------- the state
VARIABLES
    enhancedSchema,    \* this.enhancedSchema
    isExternalDriver,  \* this.isExternalDriver
    host,              \* this.host
    port,              \* this.port
    options,           \* the driverOptions initialize gave FalkorDB.connect
    init,              \* FalkorDBGraph.initialize: its place, and config.graph
    driver,            \* this.driver: "undefined", "internal" or "external"
    connected,         \* whether the driver's connection is open
    graph,             \* this.graph: the selected graph, or NoGraph
    store,             \* the backend: the content of each graph
    structuredSchema,  \* this.structuredSchema
    schema,            \* this.schema
    rc,                \* the refreshSchema call in flight, or the last one
    rc2,               \* a refreshSchema call begun while rc is in flight
    eq,                \* the executeQueries call in flight
    ret                \* the call awaited by the caller and its outcome

vars == <<enhancedSchema, isExternalDriver, host, port, options, init, driver,
          connected, graph, store, structuredSchema, schema, rc, rc2, eq, ret>>

fields == <<enhancedSchema, isExternalDriver, host, port>>

cache == <<structuredSchema, schema>>

\* ------------------------------------------------------------------ bounds
\* The largest graph content the schema specification starts from.
MaxNodes == 2
MaxEdges == 2

\* ---------------------------------------------------------------- universe
EdgeKeys == {"since"}
Types == {"KNOWS"}
GraphNames == {"g1"}
NoGraph == "undefined"

\* The orders in which the backend may list labels, keys and types.
FirstOrder == [labels |-> <<"Person", "Employee">>, keys |-> <<"name", "age", "since">>]
Orders ==
    { FirstOrder,
      [labels |-> <<"Employee", "Person">>, keys |-> <<"since", "age", "name">>] }

\* ----------------------------------------------------------- configuration
\* An optional member of the config object: its value, or undefined.
Opt(v) == [defined |-> TRUE, value |-> v]
NoText == [defined |-> FALSE, value |-> ""]
NoPort == [defined |-> FALSE, value |-> 0]

\* A connection URL scheme://hostname[:port]; the port is its digits as
\* written. NoUrl is a config without url.
Url(scheme, hostname, digits) ==
    [given |-> TRUE, scheme |-> scheme, hostname |-> hostname, digits |-> digits]
NoUrl == [given |-> FALSE, scheme |-> "", hostname |-> "", digits |-> <<>>]

\* The URLs of the tests, one without a port, one whose port is written
\* with a leading zero, one on a scheme with a default port and one whose
\* port is out of range.
Urls ==
    { Url("redis", "localhost", <<6, 3, 7, 9>>),
      Url("falkor", "db.example", <<0, 7, 0, 0, 1>>),
      Url("falkor", "db.example", <<>>),
      Url("http", "db.example", <<8, 0>>),
      Url("redis", "db.example", <<7, 0, 0, 0, 0>>) }

Hosts == {NoText, Opt("invalid-host")}
Ports == {NoPort, Opt(9999)}
Usernames == {NoText, Opt("user")}
Passwords == {NoText, Opt("secret")}

\* FalkorDBGraphConfig
Configs ==
    [driver : BOOLEAN, url : Urls \cup {NoUrl}, host : Hosts, port : Ports,
     username : Usernames, password : Passwords,
     graph : GraphNames \cup {NoGraph}, enhancedSchema : BOOLEAN]

\* The configs of the main specification: a driver or the default socket.
PlainConfigs ==
    {c \in Configs : /\ c.url = NoUrl
                     /\ c.host = NoText
                     /\ c.port = NoPort
                     /\ c.username = NoText
                     /\ c.password = NoText}

\* The config once initialize has no further use for it.
NoConfig ==
    [driver |-> FALSE, url |-> NoUrl, host |-> NoText, port |-> NoPort,
     username |-> NoText, password |-> NoText, graph |-> NoGraph,
     enhancedSchema |-> FALSE]

DefaultHost == "localhost"
DefaultPort == 6379

\* parseInt(digits, 10)
RECURSIVE ParseInt(_)
ParseInt(digits) ==
    IF digits = <<>> THEN 0
    ELSE ParseInt(SubSeq(digits, 1, Len(digits) - 1)) * 10 + digits[Len(digits)]

\* The decimal digits of a number, as the URL serialises a port.
RECURSIVE Digits(_)
Digits(n) == IF n < 10 THEN <<n>> ELSE Digits(n \div 10) \o <<n % 10>>

\* The default port of the special schemes, 0 for any other scheme.
SchemeDefaultPort(scheme) ==
    CASE scheme \in {"http", "ws"} -> 80
      [] scheme \in {"https", "wss"} -> 443
      [] scheme = "ftp" -> 21
      [] OTHER -> 0

\* new URL(url) throws: the port does not fit sixteen bits.
URLThrows(url) == ParseInt(url.digits) > 65535

\* new URL(url): hostname and port; the port is "" when none is written or
\* when it is the scheme's default, and is otherwise written without
\* leading zeros.
URLParse(url) ==
    [hostname |-> url.hostname,
     port |-> IF \/ url.digits = <<>>
                 \/ /\ SchemeDefaultPort(url.scheme) # 0
                    /\ ParseInt(url.digits) = SchemeDefaultPort(url.scheme)
              THEN <<>>
              ELSE Digits(ParseInt(url.digits))]

\* config.host ?? "localhost", config.port ?? 6379
HostPortOptions(config) ==
    [host |-> IF config.host.defined THEN config.host.value ELSE DefaultHost,
     port |-> IF config.port.defined THEN config.port.value ELSE DefaultPort]

\* The constructor with the url left unread.
HostPortIgnoringUrl(config) == HostPortOptions(config)

\* The constructor's this.host and this.port.
HostPort(config) ==
    IF config.driver THEN HostPortOptions(config)
    ELSE IF config.url.given
    THEN IF URLThrows(config.url) THEN HostPortOptions(config)
         ELSE [host |-> IF URLParse(config.url).hostname # ""
                        THEN URLParse(config.url).hostname ELSE DefaultHost,
               port |-> IF URLParse(config.url).port # <<>>
                        THEN ParseInt(URLParse(config.url).port)
                        ELSE DefaultPort]
    ELSE HostPortOptions(config)

\* What FalkorDB.connect is given; NoOptions when it was never called.
NoSocket == [host |-> "", port |-> 0]
NoOptions ==
    [called |-> FALSE, hasUrl |-> FALSE, url |-> NoUrl, hasSocket |-> FALSE,
     socket |-> NoSocket, username |-> NoText, password |-> NoText]

\* initialize's driverOptions with the socket always filled in.
DriverOptionsWithSocket(config, h, p) ==
    [called |-> TRUE, hasUrl |-> config.url.given, url |-> config.url,
     hasSocket |-> TRUE, socket |-> [host |-> h, port |-> p],
     username |-> config.username, password |-> config.password]

\* initialize's driverOptions, from the config and the instance's host and
\* port.
DriverOptions(config, h, p) ==
    [called |-> TRUE, hasUrl |-> config.url.given, url |-> config.url,
     hasSocket |-> ~config.url.given,
     socket |-> IF config.url.given THEN NoSocket ELSE [host |-> h, port |-> p],
     username |-> config.username, password |-> config.password]

\* ----------------------------------------------------------- list helpers
RECURSIVE SetToSeq(_)
SetToSeq(S) ==
    IF S = {} THEN <<>>
    ELSE LET x == CHOOSE y \in S : TRUE IN <<x>> \o SetToSeq(S \ {x})

RECURSIVE Flatten(_)
Flatten(ss) == IF ss = <<>> THEN <<>> ELSE Head(ss) \o Flatten(Tail(ss))

Range(s) == {s[i] : i \in 1..Len(s)}

Restrict(s, S) == SelectSeq(s, LAMBDA x : x \in S)

RECURSIVE Distinct(_)
Distinct(s) ==
    IF s = <<>> THEN <<>>
    ELSE LET front == Distinct(SubSeq(s, 1, Len(s) - 1))
             last == s[Len(s)]
         IN IF last \in Range(front) THEN front ELSE Append(front, last)

NoDuplicates(s) == \A i, j \in 1..Len(s) : s[i] = s[j] => i = j

\* Array.prototype.join on a list of strings.
RECURSIVE Join(_, _)
Join(s, sep) ==
    IF s = <<>> THEN ""
    ELSE IF Len(s) = 1 THEN s[1]
    ELSE s[1] \o sep \o Join(Tail(s), sep)

\* Every pair <<a[i], b[j]>>, a outermost: two nested UNWINDs.
Product(a, b) ==
    [i \in 1..(Len(a) * Len(b)) |->
        <<a[((i - 1) \div Len(b)) + 1], b[((i - 1) % Len(b)) + 1]>>]

RECURSIVE SubsetsUpTo(_, _)
SubsetsUpTo(S, k) ==
    IF k = 0 THEN {{}}
    ELSE LET smaller == SubsetsUpTo(S, k - 1)
         IN smaller \cup {T \cup {x} : T \in smaller, x \in S}

\* ------------------------------------------------------ the graph backend
\* A graph's content: nodes with their labels and property keys, directed
\* relationships with a type and property keys.
NodeU ==
    { [labels |-> {"Person"}, keys |-> {"name"}],
      [labels |-> {"Person"}, keys |-> {"name", "age"}],
      [labels |-> {"Person", "Employee"}, keys |-> {"name"}],
      [labels |-> {"Employee"}, keys |-> {}],
      [labels |-> {}, keys |-> {"age"}] }

EdgeU(N) == [src : N, type : Types, keys : SUBSET EdgeKeys, dst : N]

EmptyContent == [nodes |-> {}, edges |-> {}]

Contents ==
    UNION { { [nodes |-> N, edges |-> E] : E \in SubsetsUpTo(EdgeU(N), MaxEdges) }
            : N \in SubsetsUpTo(NodeU, MaxNodes) }

\* The Cypher texts callers send, and what each does to a graph's content.
\* CREATE (:Person:Employee {name})-[:KNOWS {since}]->(:Person {name, age})
CreateText ==
    "CREATE (e:Person:Employee {name: 1})-[:KNOWS {since: 1}]->(p:Person {name: 1, age: 1}), (p)-[:REPORTS_TO]->(e)"
DeleteText == "MATCH (n) DETACH DELETE n"
ReadText == "RETURN 1"

\* What CreateText adds to a graph.
Created ==
    LET e == [labels |-> {"Person", "Employee"}, keys |-> {"name"}]
        p == [labels |-> {"Person"}, keys |-> {"name", "age"}]
    IN [nodes |-> {e, p},
        edges |-> {[src |-> e, type |-> "KNOWS", keys |-> {"since"}, dst |-> p],
                   [src |-> p, type |-> "REPORTS_TO", keys |-> {}, dst |-> e]}]

WriteQueries == {CreateText, DeleteText}
Queries == WriteQueries \cup {ReadText}

\* The content of a graph after the backend has run query q on it.
Apply(q, c) ==
    CASE q = CreateText ->
            [nodes |-> c.nodes \cup Created.nodes,
             edges |-> c.edges \cup Created.edges]
      [] q = DeleteText -> EmptyContent
      [] OTHER -> c

\* The values of column 2 of the rows whose column 1 is g, in row order.
Collect(rows, g) ==
    LET sel == SelectSeq(rows, LAMBDA r : r[1] = g)
    IN [i \in 1..Len(sel) |-> sel[i][2]]

\* collect(key) within the group g: the query without DISTINCT.
CollectEvery(rows, g) == Collect(rows, g)

\* collect(DISTINCT key) within the group g.
CollectDistinct(rows, g) == Distinct(Collect(rows, g))

\* The grouping keys of WITH <key>, collect(...), in order of first appearance.
Groups(rows) == Distinct([i \in 1..Len(rows) |-> rows[i][1]])

\* nodePropertiesQuery: one record {label, properties} per label that some
\* node with at least one property carries.
NodePropertiesQuery(c, ord) ==
    LET scan == SetToSeq(c.nodes)
        rows == Flatten([i \in 1..Len(scan) |->
                    Product(Restrict(ord.labels, scan[i].labels),
                            Restrict(ord.keys, scan[i].keys))])
        groups == Groups(rows)
    IN [g \in 1..Len(groups) |->
           [output |-> TRUE, label |-> groups[g], hasProps |-> TRUE,
            properties |-> CollectDistinct(rows, groups[g])]]

\* relPropertiesQuery: one record {type, properties} per relationship type
\* that some relationship with at least one property has.
RelPropertiesQuery(c, ord) ==
    LET scan == SetToSeq(c.edges)
        rows == Flatten([i \in 1..Len(scan) |->
                    Product(<<scan[i].type>>, Restrict(ord.keys, scan[i].keys))])
        groups == Groups(rows)
    IN [g \in 1..Len(groups) |->
           [output |-> TRUE, type |-> groups[g], hasProps |-> TRUE,
            properties |-> CollectDistinct(rows, groups[g])]]

\* RETURN DISTINCT over the rows of relQuery.
ReturnDistinct(rows) == Distinct(rows)

\* The rows of one relationship when only the first label of each end is
\* taken: labels(n)[0] in place of UNWIND labels(n).
UnwindFirstLabels(e, ord) ==
    LET src == Restrict(ord.labels, e.src.labels)
        dst == Restrict(ord.labels, e.dst.labels)
    IN IF src = <<>> \/ dst = <<>> THEN <<>>
       ELSE <<[output |-> TRUE, start |-> src[1], type |-> e.type, end |-> dst[1]]>>

\* The rows of one relationship after the two UNWINDs of relQuery.
UnwindLabels(e, ord) ==
    LET pairs == Product(Restrict(ord.labels, e.src.labels),
                         Restrict(ord.labels, e.dst.labels))
    IN [i \in 1..Len(pairs) |->
           [output |-> TRUE, start |-> pairs[i][1], type |-> e.type,
            end |-> pairs[i][2]]]

\* relQuery: the distinct {start, type, end} over every relationship and
\* every pair of a source label and a destination label.
RelQuery(c, ord) ==
    LET scan == SetToSeq(c.edges)
    IN ReturnDistinct(Flatten([i \in 1..Len(scan) |-> UnwindLabels(scan[i], ord)]))


\* -------------------------------------------------- normalisation, format
\* result.data || []
DataOrEmpty(r) == IF r.hasData THEN r.data ELSE <<>>

\* Object.fromEntries: a later entry with a key already present replaces
\* the value and keeps the key's first position.
RECURSIVE ObjectFromEntries(_)
ObjectFromEntries(es) ==
    IF es = <<>> THEN <<>>
    ELSE LET front == ObjectFromEntries(SubSeq(es, 1, Len(es) - 1))
             last == es[Len(es)]
         IN IF \E i \in 1..Len(front) : front[i].key = last.key
            THEN [i \in 1..Len(front) |->
                     IF front[i].key = last.key THEN last ELSE front[i]]
            ELSE Append(front, last)

\* el => [el.output.label, el.output.properties]
NodeEntries(data) ==
    [i \in 1..Len(data) |->
        [key |-> data[i].label, defined |-> data[i].hasProps,
         props |-> data[i].properties]]

\* el => [el.output.type, el.output.properties]
RelEntries(data) ==
    [i \in 1..Len(data) |->
        [key |-> data[i].type, defined |-> data[i].hasProps,
         props |-> data[i].properties]]

\* el => el.output
RelOutputs(data) ==
    [i \in 1..Len(data) |->
        [defined |-> data[i].output, start |-> data[i].start,
         type |-> data[i].type, end |-> data[i].end]]

\* Reading el.output.label or el.output.type of a record without output
\* throws a TypeError.
EntriesThrow(data) == \E i \in 1..Len(data) : ~data[i].output

\* The object literal assigned to this.structuredSchema.
\* The assignment merging the new entries into the cached ones.
BuildMerging(nodeRes, relPropsRes, relRes) ==
    [nodeProps |-> ObjectFromEntries(structuredSchema.nodeProps
                       \o NodeEntries(DataOrEmpty(nodeRes))),
     relProps |-> ObjectFromEntries(structuredSchema.relProps
                       \o RelEntries(DataOrEmpty(relPropsRes))),
     relationships |-> structuredSchema.relationships
                       \o RelOutputs(DataOrEmpty(relRes))]

BuildStructuredSchema(nodeRes, relPropsRes, relRes) ==
    [nodeProps |-> ObjectFromEntries(NodeEntries(DataOrEmpty(nodeRes))),
     relProps |-> ObjectFromEntries(RelEntries(DataOrEmpty(relPropsRes))),
     relationships |-> RelOutputs(DataOrEmpty(relRes))]

BuildThrows(nodeRes, relPropsRes) ==
    EntriesThrow(DataOrEmpty(nodeRes)) \/ EntriesThrow(DataOrEmpty(relPropsRes))

EmptySchema == [nodeProps |-> <<>>, relProps |-> <<>>, relationships |-> <<>>]

\* The line with its names joined by the default separator of join().
PropsLineComma(e) == e.key \o ": {" \o Join(e.props, ",") \o "}"

\* `${label}: {${props.join(", ")}}`
PropsLine(e) == e.key \o ": {" \o Join(e.props, ", ") \o "}"

\* `(:${rel.start}) -[:${rel.type}]-> (:${rel.end})`
RelLine(r) == "(:" \o r.start \o ") -[:" \o r.type \o "]-> (:" \o r.end \o ")"

NodeHeader == "Node properties are the following:"
RelPropsHeader == "Relationship properties are the following:"
RelHeader == "The relationships are the following:"

\* props.join of an undefined property list, or rel.start of an undefined
\* relationship, throws a TypeError.
FormatThrows(ss) ==
    \/ \E i \in 1..Len(ss.nodeProps) : ~ss.nodeProps[i].defined
    \/ \E i \in 1..Len(ss.relProps) : ~ss.relProps[i].defined
    \/ \E i \in 1..Len(ss.relationships) : ~ss.relationships[i].defined

\* The formatter leaving out the body of a section that has no line.
FormatSchemaNonEmpty(ss) ==
    Join(SelectSeq(
        << NodeHeader,
           Join([i \in 1..Len(ss.nodeProps) |-> PropsLine(ss.nodeProps[i])], "\n"),
           RelPropsHeader,
           Join([i \in 1..Len(ss.relProps) |-> PropsLine(ss.relProps[i])], "\n"),
           RelHeader,
           Join([i \in 1..Len(ss.relationships) |-> RelLine(ss.relationships[i])], "\n")
        >>, LAMBDA part : part # ""), "\n")

FormatSchema(ss) ==
    Join(<< NodeHeader,
            Join([i \in 1..Len(ss.nodeProps) |-> PropsLine(ss.nodeProps[i])], "\n"),
            RelPropsHeader,
            Join([i \in 1..Len(ss.relProps) |-> PropsLine(ss.relProps[i])], "\n"),
            RelHeader,
            Join([i \in 1..Len(ss.relationships) |-> RelLine(ss.relationships[i])], "\n")
         >>, "\n")


\* ------------------------------------------------- the driver's answers
\* The state of the promise of one this.query(...) call.
Pending == [state |-> "pending", hasData |-> FALSE, data |-> <<>>]
Rejected == [state |-> "rejected", hasData |-> FALSE, data |-> <<>>]
Fulfilled(data) == [state |-> "fulfilled", hasData |-> TRUE, data |-> data]
FulfilledNoData == [state |-> "fulfilled", hasData |-> FALSE, data |-> <<>>]

\* Records that do not have the shape the adapter expects.
NodeNoProps ==
    [output |-> TRUE, label |-> "Person", hasProps |-> FALSE, properties |-> <<>>]
RelPropsNoOutput ==
    [output |-> FALSE, type |-> "", hasProps |-> FALSE, properties |-> <<>>]

WellFormed(r) ==
    \A i \in 1..Len(r.data) : r.data[i].output /\
        ("hasProps" \in DOMAIN r.data[i] => r.data[i].hasProps)

\* What a query whose rows are `rows` may resolve to: the rows, no data
\* field when there is no row, or a response holding one malformed record.
Answers(rows, bad) ==
    {Fulfilled(rows)} \cup (IF rows = <<>> THEN {FulfilledNoData} ELSE {})
        \cup {Fulfilled(<<b>>) : b \in bad}

\* A query promise with no rejection handler.
NoCatch(r) == r

\* .catch(() => ({ data: [] }))
Catch(r) == IF r.state = "rejected" THEN Fulfilled(<<>>) ELSE r

\* await Promise.all([...]) throws when one of its promises is rejected.
PromiseAllRejects(nodeRes, relPropsRes, relRes) ==
    "rejected" \in {nodeRes.state, relPropsRes.state, relRes.state}

\* ------------------------------------------------------ the state's values
IdleRefresh(before) ==
    [pc |-> "idle", g |-> NoGraph, nodeRes |-> Pending, relPropsRes |-> Pending,
     relRes |-> Pending, before |-> before]

IdleExec ==
    [pc |-> "idle", qs |-> <<>>, i |-> 1, results |-> <<>>, issued |-> <<>>]

Return(op, status, sent) == [op |-> op, status |-> status, sent |-> sent]

\* throw new Error(`Failed to connect to FalkorDB at ${graph.host}:${graph.port}: ...`)
InitializeError(h, p) ==
    [op |-> "initialize", status |-> "failed", sent |-> 0,
     message |-> "Failed to connect to FalkorDB at " \o h \o ":" \o ToString(p)]

\* initialize's place: pc, the config.graph it still has to select, and
\* the config while the constructor's caller or initialize holds it.
InitAt(pc, graphName) == [pc |-> pc, graph |-> graphName, config |-> NoConfig]

\* The constructor: config.enhancedSchema ?? false, !!config.driver, host
\* and port, and the initial values of the other fields. The instance is
\* handed to the caller ("new") or is the local of FalkorDBGraph.initialize
\* ("initialize").
Construct(config, pc) ==
    /\ enhancedSchema = config.enhancedSchema
    /\ isExternalDriver = config.driver
    /\ host = HostPort(config).host
    /\ port = HostPort(config).port
    /\ options = NoOptions
    /\ init = [pc |-> pc,
               graph |-> IF pc = "new" THEN NoGraph ELSE config.graph,
               config |-> config]
    /\ driver = "undefined"
    /\ connected = isExternalDriver
    /\ graph = NoGraph
    /\ store = [g \in GraphNames |-> EmptyContent]
    /\ structuredSchema = EmptySchema
    /\ schema = ""
    /\ rc = IdleRefresh(<<EmptySchema, "">>)
    /\ rc2 = IdleRefresh(<<EmptySchema, "">>)
    /\ eq = IdleExec
    /\ ret = Return("constructor", "ok", 0)

Init ==
    \E config \in PlainConfigs, pc \in {"new", "initialize"} :
        /\ pc = "new" => config.graph = NoGraph
        /\ Construct(config, pc)

\* The caller holds the instance and awaits no call on it.
Ready ==
    /\ init.pc \in {"new", "resolved"}
    /\ rc.pc = "idle"
    /\ eq.pc = "idle"

\* The guard with its check left out.
NoGraphSelectedNever == FALSE

\* !this.graph
NoGraphSelected == graph = NoGraph

\* this.graph.query(q) on graph g cannot be answered.
QueryFails(g) == g = NoGraph \/ ~connected

\* ------------------------------------------------- FalkorDBGraph.initialize
\* graph.driver = config.driver, or await FalkorDB.connect(driverOptions)
InitObtainDriver ==
    /\ init.pc = "initialize"
    /\ \/ /\ isExternalDriver
          /\ driver' = "external"
          /\ init' = [init EXCEPT !.pc = "driver"]
          /\ UNCHANGED <<connected, ret>>
          /\ UNCHANGED options
       \/ /\ ~isExternalDriver
          /\ options' = DriverOptions(init.config, host, port)
          /\ driver' = "internal"
          /\ connected' = TRUE
          /\ init' = [init EXCEPT !.pc = "driver"]
          /\ UNCHANGED ret
       \/ /\ ~isExternalDriver
          /\ options' = DriverOptions(init.config, host, port)
          /\ init' = InitAt("rejected", NoGraph)
          /\ ret' = InitializeError(host, port)
          /\ UNCHANGED <<driver, connected>>
    /\ UNCHANGED <<fields, rc2, graph, store, structuredSchema, schema, rc, eq>>

\* await graph.verifyConnectivity()
InitVerifyConnectivity ==
    /\ init.pc = "driver"
    /\ \/ /\ connected
          /\ init' = [init EXCEPT !.pc = "verified"]
          /\ UNCHANGED ret
       \/ /\ init' = InitAt("rejected", NoGraph)
          /\ ret' = InitializeError(host, port)
    /\ UNCHANGED <<fields, rc2, options, driver, connected, graph, store, structuredSchema,
                   schema, rc, eq>>

\* initialize selecting a graph of its own when config.graph is not given.
InitSelectGraphAlways ==
    /\ init.pc = "verified"
    /\ \E graphName \in GraphNames :
          /\ graph' = graphName
          /\ init' = InitAt("resolved", NoGraph)
          /\ ret' = Return("initialize", "ok", 0)
    /\ UNCHANGED <<fields, rc2, options, driver, connected, store, structuredSchema,
                   schema, rc, eq>>

\* if (config.graph) await graph.selectGraph(config.graph); return graph
InitSelectGraph ==
    /\ init.pc = "verified"
    /\ \/ /\ init.graph = NoGraph
          /\ init' = InitAt("resolved", NoGraph)
          /\ ret' = Return("initialize", "ok", 0)
          /\ UNCHANGED graph
       \/ /\ init.graph # NoGraph
          /\ graph' = init.graph
          /\ init' = InitAt("resolved", NoGraph)
          /\ ret' = Return("initialize", "ok", 0)
       \/ /\ init.graph # NoGraph
          /\ init' = InitAt("rejected", NoGraph)
          /\ ret' = InitializeError(host, port)
          /\ UNCHANGED graph
    /\ UNCHANGED <<fields, rc2, options, driver, connected, store, structuredSchema, schema,
                   rc, eq>>

\* ------------------------------------------------------ the instance's API
\* What a selectGraph(graphName) call leaves behind.
SelectGraphReturn(status, graphName) ==
    [op |-> "selectGraph", status |-> status, sent |-> 0,
     graphName |-> graphName]

\* selectGraph letting go of the selected graph when the driver throws.
SelectGraphUnsetOnFailure(graphName) ==
    /\ Ready
    /\ \/ /\ driver = "undefined"
          /\ ret' = SelectGraphReturn("failed", graphName)
          /\ UNCHANGED graph
       \/ /\ driver # "undefined"
          /\ graph' = graphName
          /\ ret' = SelectGraphReturn("ok", graphName)
       \/ /\ driver # "undefined"
          /\ ret' = SelectGraphReturn("failed", graphName)
          /\ graph' = NoGraph
    /\ UNCHANGED <<fields, rc2, options, init, driver, connected, store, structuredSchema,
                   schema, rc, eq>>

\* selectGraph forgetting the schema of the graph selected before.
SelectGraphResettingSchema(graphName) ==
    /\ Ready
    /\ \/ /\ driver = "undefined"
          /\ ret' = SelectGraphReturn("failed", graphName)
          /\ UNCHANGED <<graph, structuredSchema, schema>>
       \/ /\ driver # "undefined"
          /\ graph' = graphName
          /\ structuredSchema' = EmptySchema
          /\ schema' = ""
          /\ ret' = SelectGraphReturn("ok", graphName)
    /\ UNCHANGED <<fields, rc2, options, init, driver, connected, store, rc, eq>>

SelectGraph(graphName) ==
    /\ Ready
    /\ \/ /\ driver = "undefined"
          /\ ret' = SelectGraphReturn("failed", graphName)
          /\ UNCHANGED graph
       \/ /\ driver # "undefined"
          /\ graph' = graphName
          /\ ret' = SelectGraphReturn("ok", graphName)
       \/ /\ driver # "undefined"
          /\ ret' = SelectGraphReturn("failed", graphName)
          /\ UNCHANGED graph
    /\ UNCHANGED <<fields, rc2, options, init, driver, connected, store, structuredSchema,
                   schema, rc, eq>>

Query(query) ==
    /\ Ready
    /\ \/ /\ NoGraphSelected
          /\ ret' = Return("query", "NoGraphSelected", 0)
          /\ UNCHANGED store
       \/ /\ ~NoGraphSelected
          /\ ~QueryFails(graph)
          /\ store' = [store EXCEPT ![graph] = Apply(query, @)]
          /\ ret' = Return("query", "ok", 1)
       \/ /\ ~NoGraphSelected
          /\ ret' = Return("query", "failed", 1)
          /\ UNCHANGED store
    /\ UNCHANGED <<fields, rc2, options, init, driver, connected, graph, structuredSchema,
                   schema, rc, eq>>

VerifyConnectivity ==
    /\ Ready
    /\ \/ /\ driver = "undefined"
          /\ ret' = Return("verifyConnectivity", "failed", 0)
       \/ /\ driver # "undefined"
          /\ connected
          /\ ret' = Return("verifyConnectivity", "ok", 0)
       \/ /\ driver # "undefined"
          /\ ret' = Return("verifyConnectivity", "failed", 0)
    /\ UNCHANGED <<fields, rc2, options, init, driver, connected, graph, store,
                   structuredSchema, schema, rc, eq>>

\* isConnected()
IsConnected == driver # "undefined"

\* hasSelectedGraph()
HasSelectedGraph == graph # NoGraph

\* The test of close() without its regard for the driver's owner.
ClosesAnyDriver == driver # "undefined"

\* this.driver && !this.isExternalDriver
ClosesDriver == driver # "undefined" /\ ~isExternalDriver

\* close() also letting go of the selected graph.
CloseForgettingGraph ==
    /\ Ready
    /\ \/ /\ ClosesDriver
          /\ connected' = FALSE
       \/ /\ ~ClosesDriver
          /\ UNCHANGED connected
    /\ graph' = NoGraph
    /\ ret' = Return("close", "ok", 0)
    /\ UNCHANGED <<fields, rc2, options, init, driver, store, structuredSchema,
                   schema, rc, eq>>

\* close() also dropping the cached schema.
CloseDiscardingSchema ==
    /\ Ready
    /\ \/ /\ ClosesDriver
          /\ connected' = FALSE
       \/ /\ ~ClosesDriver
          /\ UNCHANGED connected
    /\ structuredSchema' = EmptySchema
    /\ schema' = ""
    /\ ret' = Return("close", "ok", 0)
    /\ UNCHANGED <<fields, rc2, options, init, driver, graph, store, rc, eq>>

Close ==
    /\ Ready
    /\ \/ /\ ClosesDriver
          /\ connected' = FALSE
       \/ /\ ~ClosesDriver
          /\ UNCHANGED connected
    /\ ret' = Return("close", "ok", 0)
    /\ UNCHANGED <<fields, rc2, options, init, driver, graph, store, structuredSchema,
                   schema, rc, eq>>

ClearGraph ==
    /\ Ready
    /\ \/ /\ NoGraphSelected
          /\ ret' = Return("clearGraph", "NoGraphSelected", 0)
          /\ UNCHANGED store
       \/ /\ ~NoGraphSelected
          /\ ~QueryFails(graph)
          /\ store' = [store EXCEPT ![graph] = Apply(DeleteText, @)]
          /\ ret' = Return("clearGraph", "ok", 1)
       \/ /\ ~NoGraphSelected
          /\ ret' = Return("clearGraph", "failed", 1)
          /\ UNCHANGED store
    /\ UNCHANGED <<fields, rc2, options, init, driver, connected, graph, structuredSchema,
                   schema, rc, eq>>

\* The lists of queries callers hand to executeQueries.
QueryLists == {<<>>, <<CreateText, ReadText>>}

\* What the backend answers to query q run on content c: the query it
\* answers and the number of nodes it created.
Reply(q, c) ==
    [query |-> q,
     nodesCreated |-> IF q = CreateText
                      THEN Cardinality(Created.nodes \ c.nodes) ELSE 0]

\* throw new Error(`Failed executing query "${query}": ...`)
ExecuteQueriesError(query, sent) ==
    [op |-> "executeQueries", status |-> "failed", sent |-> sent,
     query |-> query]

\* The catch clause swallowing the error and going on with the next query.
CatchAndContinue(e) == [e EXCEPT !.pc = "loop", !.i = @ + 1]

\* The catch clause of the loop: the throw ends the call.
CatchAndThrow(e) == IdleExec

ExecuteQueries(queries) ==
    /\ Ready
    /\ \/ /\ NoGraphSelected
          /\ ret' = Return("executeQueries", "NoGraphSelected", 0)
          /\ UNCHANGED eq
       \/ /\ ~NoGraphSelected
          /\ eq' = [pc |-> "loop", qs |-> queries, i |-> 1, results |-> <<>>,
                    issued |-> <<>>]
          /\ ret' = Return("executeQueries", "pending", 0)
    /\ UNCHANGED <<fields, rc2, options, init, driver, connected, graph, store,
                   structuredSchema, schema, rc>>

\* The head of the for loop: return results, or this.query(query) for the
\* next query of the list.
ExecuteQueriesStep ==
    /\ eq.pc = "loop"
    /\ \/ /\ eq.i > Len(eq.qs)
          /\ eq' = IdleExec
          /\ ret' = Return("executeQueries", "ok", Len(eq.issued))
       \/ /\ eq.i <= Len(eq.qs)
          /\ eq' = [eq EXCEPT !.pc = "await",
                              !.issued = Append(@, eq.qs[eq.i])]
          /\ UNCHANGED ret
    /\ UNCHANGED <<fields, rc2, options, init, driver, connected, graph, store,
                   structuredSchema, schema, rc>>

\* await this.query(query) settles: results.push(result), or the catch
\* clause.
ExecuteQueriesSettle ==
    /\ eq.pc = "await"
    /\ \/ /\ ~QueryFails(graph)
          /\ store' = [store EXCEPT ![graph] = Apply(eq.qs[eq.i], @)]
          /\ eq' = [eq EXCEPT !.pc = "loop", !.i = @ + 1,
                              !.results = Append(@, Reply(eq.qs[eq.i],
                                                          store[graph]))]
          /\ UNCHANGED ret
       \/ /\ eq' = CatchAndThrow(eq)
          /\ ret' = ExecuteQueriesError(eq.qs[eq.i], Len(eq.issued))
          /\ UNCHANGED store
    /\ UNCHANGED <<fields, rc2, options, init, driver, connected, graph, structuredSchema,
                   schema, rc>>

\* Another client of the database changes a graph.
BackendWrite(g, query) ==
    /\ store' = [store EXCEPT ![g] = Apply(query, @)]
    /\ store' # store
    /\ UNCHANGED <<fields, rc2, options, init, driver, connected, graph, structuredSchema,
                   schema, rc, eq, ret>>


\* ------------------------------------------------------------ refreshSchema
\* The guard, and the three this.query(...) calls handed to Promise.all.
RefreshSchema ==
    /\ Ready
    /\ \/ /\ NoGraphSelected
          /\ ret' = Return("refreshSchema", "NoGraphSelected", 0)
          /\ UNCHANGED rc
       \/ /\ ~NoGraphSelected
          /\ rc' = [pc |-> "awaitAll", g |-> graph, nodeRes |-> Pending,
                    relPropsRes |-> Pending, relRes |-> Pending, before |-> cache]
          /\ ret' = Return("refreshSchema", "pending", 3)
    /\ UNCHANGED <<fields, rc2, options, init, driver, connected, graph, store,
                   structuredSchema, schema, eq>>

\* this.query(nodePropertiesQuery) settles, and is issued again after it
\* has failed.
NodeQuerySettlesRetrying ==
    /\ rc.pc = "awaitAll"
    /\ rc.nodeRes.state \in {"pending", "rejected"}
    /\ \/ rc' = [rc EXCEPT !.nodeRes = Rejected]
       \/ /\ ~QueryFails(rc.g)
          /\ \E ord \in Orders :
               \E r \in Answers(NodePropertiesQuery(store[rc.g], ord), {NodeNoProps}) :
                  rc' = [rc EXCEPT !.nodeRes = r]
    /\ UNCHANGED <<fields, rc2, options, init, driver, connected, graph, store,
                   structuredSchema, schema, eq, ret>>

\* this.query(nodePropertiesQuery) settles.
NodeQuerySettles ==
    /\ rc.pc = "awaitAll"
    /\ rc.nodeRes.state = "pending"
    /\ \/ rc' = [rc EXCEPT !.nodeRes = Rejected]
       \/ /\ ~QueryFails(rc.g)
          /\ \E ord \in Orders :
               \E r \in Answers(NodePropertiesQuery(store[rc.g], ord), {NodeNoProps}) :
                  rc' = [rc EXCEPT !.nodeRes = r]
    /\ UNCHANGED <<fields, rc2, options, init, driver, connected, graph, store,
                   structuredSchema, schema, eq, ret>>

\* this.query(relPropertiesQuery) settles.
RelPropsQuerySettles ==
    /\ rc.pc = "awaitAll"
    /\ rc.relPropsRes.state = "pending"
    /\ \/ rc' = [rc EXCEPT !.relPropsRes = Rejected]
       \/ /\ ~QueryFails(rc.g)
          /\ \E ord \in Orders :
               \E r \in Answers(RelPropertiesQuery(store[rc.g], ord), {RelPropsNoOutput}) :
                  rc' = [rc EXCEPT !.relPropsRes = r]
    /\ UNCHANGED <<fields, rc2, options, init, driver, connected, graph, store,
                   structuredSchema, schema, eq, ret>>

\* this.query(relQuery) settles.
RelQuerySettles ==
    /\ rc.pc = "awaitAll"
    /\ rc.relRes.state = "pending"
    /\ \/ rc' = [rc EXCEPT !.relRes = Rejected]
       \/ /\ ~QueryFails(rc.g)
          /\ \E ord \in Orders :
               \E r \in Answers(RelQuery(store[rc.g], ord), {}) :
                  rc' = [rc EXCEPT !.relRes = r]
    /\ UNCHANGED <<fields, rc2, options, init, driver, connected, graph, store,
                   structuredSchema, schema, eq, ret>>

\* Promise.race in place of Promise.all: the first response is enough.
AnySettled ==
    \/ rc.nodeRes.state # "pending"
    \/ rc.relPropsRes.state # "pending"
    \/ rc.relRes.state # "pending"

AllSettled ==
    /\ rc.nodeRes.state # "pending"
    /\ rc.relPropsRes.state # "pending"
    /\ rc.relRes.state # "pending"

\* this.schema = this.formatSchema(), and the call settles: it resolves,
\* or formatSchema throws and it rejects.
FormatAndSettle(ss) ==
    \/ /\ ~FormatThrows(ss)
       /\ schema' = FormatSchema(ss)
       /\ rc' = [rc EXCEPT !.pc = "idle", !.before = <<ss, FormatSchema(ss)>>]
       /\ ret' = Return("refreshSchema", "ok", 3)
    \/ /\ FormatThrows(ss)
       /\ UNCHANGED schema
       /\ rc' = IdleRefresh(rc.before)
       /\ ret' = Return("refreshSchema", "failed", 3)

\* The continuation of await Promise.all([...]): the results are read, the
\* structured schema is assigned, and either the call awaits
\* enhanceSchemaDetails or it formats the schema. An exception thrown
\* before the assignment is logged and rethrown by the catch block.
RefreshContinue ==
    /\ rc.pc = "awaitAll"
    /\ AllSettled
    /\ LET nodeRes == Catch(rc.nodeRes)
           relPropsRes == Catch(rc.relPropsRes)
           relRes == Catch(rc.relRes)
           ss == BuildStructuredSchema(nodeRes, relPropsRes, relRes)
           throws == \/ PromiseAllRejects(nodeRes, relPropsRes, relRes)
                     \/ BuildThrows(nodeRes, relPropsRes)
       IN \/ /\ throws
             /\ rc' = IdleRefresh(rc.before)
             /\ ret' = Return("refreshSchema", "failed", 3)
             /\ UNCHANGED <<structuredSchema, schema>>
          \/ /\ ~throws
             /\ structuredSchema' = ss
             /\ enhancedSchema
             /\ rc' = [rc EXCEPT !.pc = "awaitEnhance"]
             /\ UNCHANGED <<schema, ret>>
          \/ /\ ~throws
             /\ structuredSchema' = ss
             /\ ~enhancedSchema
             /\ FormatAndSettle(ss)
    /\ UNCHANGED <<fields, rc2, options, init, driver, connected, graph, store, eq>>

\* The enhanced branch returning once enhanceSchemaDetails is done.
RefreshEnhanceOnly ==
    /\ rc.pc = "awaitEnhance"
    /\ rc' = [rc EXCEPT !.pc = "idle", !.before = cache]
    /\ ret' = Return("refreshSchema", "ok", 3)
    /\ UNCHANGED <<fields, rc2, options, init, driver, connected, graph, store,
                   structuredSchema, schema, eq>>

\* The continuation of await this.enhanceSchemaDetails().
RefreshFormat ==
    /\ rc.pc = "awaitEnhance"
    /\ FormatAndSettle(structuredSchema)
    /\ UNCHANGED <<fields, rc2, options, init, driver, connected, graph, store,
                   structuredSchema, eq>>

\* ------------------------------------------------------- the specification
Next ==
    \/ InitObtainDriver
    \/ InitVerifyConnectivity
    \/ InitSelectGraph
    \/ \E g \in GraphNames : SelectGraph(g)
    \/ \E q \in Queries : Query(q)
    \/ VerifyConnectivity
    \/ Close
    \/ ClearGraph
    \/ \E qs \in QueryLists : ExecuteQueries(qs)
    \/ ExecuteQueriesStep
    \/ ExecuteQueriesSettle
    \/ \E g \in GraphNames, q \in WriteQueries : BackendWrite(g, q)
    \/ RefreshSchema
    \/ NodeQuerySettles
    \/ RelPropsQuerySettles
    \/ RelQuerySettles
    \/ RefreshContinue
    \/ RefreshFormat

Spec == Init /\ [][Next]_vars

\* ------------------------------------------ the schema of a given graph
\* refreshSchema of a connected instance whose three queries are all
\* answered from one content of the selected graph, taken as one step: the
\* composition of RefreshSchema, the three settles and RefreshContinue of
\* an instance without enhancedSchema.  The graph starts with any content
\* of at most MaxNodes nodes and MaxEdges edges, other clients write to it
\* between refreshes, and each refresh finds the backend listing labels and
\* keys in one of its orders.
SchemaInit ==
    /\ enhancedSchema = FALSE
    /\ isExternalDriver = FALSE
    /\ host = DefaultHost
    /\ port = DefaultPort
    /\ options = DriverOptions(NoConfig, DefaultHost, DefaultPort)
    /\ init = InitAt("resolved", NoGraph)
    /\ driver = "internal"
    /\ connected = TRUE
    /\ graph \in GraphNames
    /\ store \in [GraphNames -> Contents]
    /\ structuredSchema = EmptySchema
    /\ schema = ""
    /\ rc = IdleRefresh(<<EmptySchema, "">>)
    /\ rc2 = IdleRefresh(<<EmptySchema, "">>)
    /\ eq = IdleExec
    /\ ret = Return("initialize", "ok", 0)

Introspect ==
    /\ Ready
    /\ ~NoGraphSelected
    /\ ~QueryFails(graph)
    /\ \E ord \in Orders :
       \E nodeRes \in {Fulfilled(NodePropertiesQuery(store[graph], ord))},
          relPropsRes \in {Fulfilled(RelPropertiesQuery(store[graph], ord))},
          relRes \in {Fulfilled(RelQuery(store[graph], ord))} :
       \E ss \in {BuildStructuredSchema(Catch(nodeRes), Catch(relPropsRes),
                                        Catch(relRes))} :
       \E formatted \in {FormatSchema(ss)} :
          /\ ~PromiseAllRejects(Catch(nodeRes), Catch(relPropsRes), Catch(relRes))
          /\ ~BuildThrows(Catch(nodeRes), Catch(relPropsRes))
          /\ ~FormatThrows(ss)
          /\ structuredSchema' = ss
          /\ schema' = formatted
          /\ rc' = [pc |-> "idle", g |-> graph, nodeRes |-> nodeRes,
                    relPropsRes |-> relPropsRes, relRes |-> relRes,
                    before |-> <<ss, formatted>>]
          /\ ret' = Return("refreshSchema", "ok", 3)
    /\ UNCHANGED <<fields, rc2, options, init, driver, connected, graph, store, eq>>

SchemaNext ==
    \/ Introspect
    \/ \E g \in GraphNames, q \in WriteQueries : BackendWrite(g, q)

SchemaSpec == SchemaInit /\ [][SchemaNext]_vars

\* ---------------------------------------- the configuration specification
\* Every config of the universe, constructed directly or by initialize, and
\* the operations that follow on the instance.
ConfigInit ==
    \E config \in Configs, pc \in {"new", "initialize"} : Construct(config, pc)

\* getConnectionUrl()
GetConnectionUrl == "http://" \o host \o ":" \o ToString(port)

ConfigNext ==
    \/ InitObtainDriver
    \/ InitVerifyConnectivity
    \/ InitSelectGraph
    \/ \E graphName \in GraphNames : SelectGraph(graphName)
    \/ \E query \in Queries : Query(query)
    \/ VerifyConnectivity
    \/ ClearGraph
    \/ Close

ConfigSpec == ConfigInit /\ [][ConfigNext]_vars

\* ------------------------------------------------- overlapping refreshes
\* A second refreshSchema call on the instance, begun while the first is
\* awaiting its queries or enhanceSchemaDetails. Its steps are those of
\* the first call, on its own promises. The specification starts where an
\* initialized instance on a graph holding the created data has begun its
\* first refreshSchema call.
OverlapInit ==
    /\ enhancedSchema \in BOOLEAN
    /\ isExternalDriver = FALSE
    /\ host = DefaultHost
    /\ port = DefaultPort
    /\ options = DriverOptions(NoConfig, DefaultHost, DefaultPort)
    /\ init = InitAt("resolved", NoGraph)
    /\ driver = "internal"
    /\ connected = TRUE
    /\ graph \in GraphNames
    /\ store = [g \in GraphNames |-> Created]
    /\ structuredSchema = EmptySchema
    /\ schema = ""
    /\ rc = [pc |-> "awaitAll", g |-> graph, nodeRes |-> Pending,
             relPropsRes |-> Pending, relRes |-> Pending, before |-> cache]
    /\ rc2 = IdleRefresh(<<EmptySchema, "">>)
    /\ eq = IdleExec
    /\ ret = Return("refreshSchema", "pending", 3)

RefreshSchemaOverlapping ==
    /\ init.pc \in {"new", "resolved"}
    /\ rc.pc # "idle"
    /\ rc2.pc = "idle"
    /\ ~NoGraphSelected
    /\ rc2' = [pc |-> "awaitAll", g |-> graph, nodeRes |-> Pending,
               relPropsRes |-> Pending, relRes |-> Pending, before |-> cache]
    /\ UNCHANGED <<fields, options, init, driver, connected, graph, store,
                   structuredSchema, schema, rc, eq, ret>>

OverlapNodeQuerySettles ==
    /\ rc2.pc = "awaitAll"
    /\ rc2.nodeRes.state = "pending"
    /\ \/ rc2' = [rc2 EXCEPT !.nodeRes = Rejected]
       \/ /\ ~QueryFails(rc2.g)
          /\ \E ord \in Orders :
               \E r \in Answers(NodePropertiesQuery(store[rc2.g], ord), {NodeNoProps}) :
                  rc2' = [rc2 EXCEPT !.nodeRes = r]
    /\ UNCHANGED <<fields, options, init, driver, connected, graph, store,
                   structuredSchema, schema, rc, eq, ret>>

OverlapRelPropsQuerySettles ==
    /\ rc2.pc = "awaitAll"
    /\ rc2.relPropsRes.state = "pending"
    /\ \/ rc2' = [rc2 EXCEPT !.relPropsRes = Rejected]
       \/ /\ ~QueryFails(rc2.g)
          /\ \E ord \in Orders :
               \E r \in Answers(RelPropertiesQuery(store[rc2.g], ord), {RelPropsNoOutput}) :
                  rc2' = [rc2 EXCEPT !.relPropsRes = r]
    /\ UNCHANGED <<fields, options, init, driver, connected, graph, store,
                   structuredSchema, schema, rc, eq, ret>>

OverlapRelQuerySettles ==
    /\ rc2.pc = "awaitAll"
    /\ rc2.relRes.state = "pending"
    /\ \/ rc2' = [rc2 EXCEPT !.relRes = Rejected]
       \/ /\ ~QueryFails(rc2.g)
          /\ \E ord \in Orders :
               \E r \in Answers(RelQuery(store[rc2.g], ord), {}) :
                  rc2' = [rc2 EXCEPT !.relRes = r]
    /\ UNCHANGED <<fields, options, init, driver, connected, graph, store,
                   structuredSchema, schema, rc, eq, ret>>

\* this.schema = this.formatSchema() of the second call, and it settles.
OverlapFormatAndSettle(ss) ==
    \/ /\ ~FormatThrows(ss)
       /\ schema' = FormatSchema(ss)
       /\ rc2' = [rc2 EXCEPT !.pc = "done"]
       /\ ret' = Return("refreshSchema", "ok", 3)
    \/ /\ FormatThrows(ss)
       /\ UNCHANGED schema
       /\ rc2' = [rc2 EXCEPT !.pc = "done"]
       /\ ret' = Return("refreshSchema", "failed", 3)

\* The continuation of the second call's await Promise.all([...]).
OverlapContinue ==
    /\ rc2.pc = "awaitAll"
    /\ rc2.nodeRes.state # "pending"
    /\ rc2.relPropsRes.state # "pending"
    /\ rc2.relRes.state # "pending"
    /\ LET nodeRes == Catch(rc2.nodeRes)
           relPropsRes == Catch(rc2.relPropsRes)
           relRes == Catch(rc2.relRes)
           ss == BuildStructuredSchema(nodeRes, relPropsRes, relRes)
           throws == \/ PromiseAllRejects(nodeRes, relPropsRes, relRes)
                     \/ BuildThrows(nodeRes, relPropsRes)
       IN \/ /\ throws
             /\ rc2' = [rc2 EXCEPT !.pc = "done"]
             /\ ret' = Return("refreshSchema", "failed", 3)
             /\ UNCHANGED <<structuredSchema, schema>>
          \/ /\ ~throws
             /\ structuredSchema' = ss
             /\ enhancedSchema
             /\ rc2' = [rc2 EXCEPT !.pc = "awaitEnhance"]
             /\ UNCHANGED <<schema, ret>>
          \/ /\ ~throws
             /\ structuredSchema' = ss
             /\ ~enhancedSchema
             /\ OverlapFormatAndSettle(ss)
    /\ UNCHANGED <<fields, options, init, driver, connected, graph, store, rc, eq>>

\* The continuation of the second call's await this.enhanceSchemaDetails().
OverlapFormat ==
    /\ rc2.pc = "awaitEnhance"
    /\ OverlapFormatAndSettle(structuredSchema)
    /\ UNCHANGED <<fields, options, init, driver, connected, graph, store,
                   structuredSchema, rc, eq>>

OverlapNext ==
    \/ NodeQuerySettles
    \/ RelPropsQuerySettles
    \/ RelQuerySettles
    \/ RefreshContinue
    \/ RefreshFormat
    \/ RefreshSchemaOverlapping
    \/ OverlapNodeQuerySettles
    \/ OverlapRelPropsQuerySettles
    \/ OverlapRelQuerySettles
    \/ OverlapContinue
    \/ OverlapFormat

OverlapSpec == OverlapInit /\ [][OverlapNext]_vars

\* ------------------------------------------------ switching between graphs
\* A second graph of the database, for an instance that switches graphs.
OtherGraph == "g2"
TwoGraphs == GraphNames \cup {OtherGraph}

\* An instance made by the constructor alone, or initialized without
\* config.graph on its own connection, on a database whose first graph
\* holds the created data.
SelectInit ==
    /\ enhancedSchema = FALSE
    /\ isExternalDriver = FALSE
    /\ host = DefaultHost
    /\ port = DefaultPort
    /\ \/ /\ init = [pc |-> "new", graph |-> NoGraph, config |-> NoConfig]
          /\ options = NoOptions
          /\ driver = "undefined"
          /\ connected = FALSE
          /\ ret = Return("constructor", "ok", 0)
       \/ /\ init = InitAt("resolved", NoGraph)
          /\ options = DriverOptions(NoConfig, DefaultHost, DefaultPort)
          /\ driver = "internal"
          /\ connected = TRUE
          /\ ret = Return("initialize", "ok", 0)
    /\ graph = NoGraph
    /\ store = [g \in TwoGraphs |-> IF g \in GraphNames THEN Created
                                    ELSE EmptyContent]
    /\ structuredSchema = EmptySchema
    /\ schema = ""
    /\ rc = IdleRefresh(<<EmptySchema, "">>)
    /\ rc2 = IdleRefresh(<<EmptySchema, "">>)
    /\ eq = IdleExec

SelectNext ==
    \/ \E graphName \in TwoGraphs : SelectGraph(graphName)
    \/ \E query \in Queries : Query(query)
    \/ ClearGraph
    \/ Introspect
    \/ Close

SelectSpec == SelectInit /\ [][SelectNext]_vars

\* ================================================================ claims
\* What the last call of an operation left behind.
Returned(op, status) == ret.op = op /\ ret.status = status

GuardedOps == {"refreshSchema", "query", "clearGraph", "executeQueries"}

\* C1: While no graph is selected, refreshSchema, query, clearGraph and
\* executeQueries each reject with 'No graph selected', issue no query
\* (nothing is sent, no call stays in flight) and leave the structured
\* schema and the schema string as they were before the call, which with
\* no graph ever selected is as the constructor left them.
NoGraphRejects ==
    (NoGraph = graph /\ ret.op \in GuardedOps) =>
        /\ ret.status = "NoGraphSelected"
        /\ ret.sent = 0
        /\ rc.pc = "idle"
        /\ eq.pc = "idle"
        /\ cache = rc.before
        /\ cache = <<EmptySchema, "">>

NoGraphRejectsWitness ==
    /\ NoGraph = graph
    /\ init.pc = "resolved"
    /\ Returned("refreshSchema", "NoGraphSelected")

\* The query results of the refreshSchema call in flight.
Results == <<rc.nodeRes, rc.relPropsRes, rc.relRes>>

FailedQueries == {i \in 1..3 : Results[i].state = "rejected"}

\* The rows a response carries, none when it has no data field.
Rows(r) == IF r.hasData THEN r.data ELSE <<>>

\* A properties dimension holds one entry per record of the response r, in
\* the response's order, under the name the record is called by.
NodePropsFromOwn(ss, r) ==
    /\ Len(ss.nodeProps) = Len(Rows(r))
    /\ \A i \in 1..Len(Rows(r)) :
          ss.nodeProps[i] = [key |-> Rows(r)[i].label, defined |-> TRUE,
                             props |-> Rows(r)[i].properties]

RelPropsFromOwn(ss, r) ==
    /\ Len(ss.relProps) = Len(Rows(r))
    /\ \A i \in 1..Len(Rows(r)) :
          ss.relProps[i] = [key |-> Rows(r)[i].type, defined |-> TRUE,
                            props |-> Rows(r)[i].properties]

RelationshipsFromOwn(ss, r) ==
    /\ Len(ss.relationships) = Len(Rows(r))
    /\ \A i \in 1..Len(Rows(r)) :
          ss.relationships[i] = [defined |-> TRUE, start |-> Rows(r)[i].start,
                                 type |-> Rows(r)[i].type, end |-> Rows(r)[i].end]

\* The refreshSchema call has all three results, one or two of them
\* failures and the others well formed, and is about to go on from an await.
PartialFailure ==
    /\ rc.pc \in {"awaitAll", "awaitEnhance"}
    /\ AllSettled
    /\ Cardinality(FailedQueries) \in {1, 2}
    /\ \A i \in (1..3) \ FailedQueries : WellFormed(Results[i])

NoConnectionPropagates ==
    [][(/\ rc.pc = "awaitAll"
        /\ AllSettled
        /\ ~connected
        /\ FailedQueries = {1, 2, 3}
        /\ rc'.pc # rc.pc) =>
          /\ rc'.pc = "idle"
          /\ ret' = Return("refreshSchema", "failed", 3)
          /\ UNCHANGED cache]_vars

\* C4: Once a refresh has completed (the schema string is no longer the
\* constructor's ""), in every state a caller can observe, getSchema()
\* is the formatter's rendering of the current getStructuredSchema().
RenderedWithStructured ==
    schema # "" =>
        /\ ~FormatThrows(structuredSchema)
        /\ schema = FormatSchema(structuredSchema)

\* C5: After a refreshSchema call that rejected, getStructuredSchema() and
\* getSchema() return what they returned before that call.
RejectedRefreshKeepsCache ==
    Returned("refreshSchema", "failed") => cache = rc.before

\* A step that resolves a refresh and leaves the graph as it is. Under
\* SchemaSpec every step is a write of another client or such a refresh.
RefreshResolves == store' = store /\ Returned("refreshSchema", "ok")'

\* What a structured schema holds, whatever the order: its labels with
\* their sets of property names, its types with theirs, its triples.
Membership(ss) ==
    [nodeProps |-> {<<e.key, Range(e.props)>> : e \in Range(ss.nodeProps)},
     relProps |-> {<<e.key, Range(e.props)>> : e \in Range(ss.relProps)},
     relationships |-> Range(ss.relationships)]

\* The last refresh resolved, and the graph still answers its three
\* queries as it answered them then.
RefreshedOnThisGraph ==
    /\ Returned("refreshSchema", "ok")
    /\ \E ord \in Orders :
          rc.nodeRes = Fulfilled(NodePropertiesQuery(store[graph], ord))
    /\ \E ord \in Orders :
          rc.relPropsRes = Fulfilled(RelPropertiesQuery(store[graph], ord))
    /\ \E ord \in Orders : rc.relRes = Fulfilled(RelQuery(store[graph], ord))

\* C6: The structured schema a refresh caches is read off the three
\* results of that refresh alone, one entry per record, whatever was
\* cached before (an entry cached earlier and not among the new records is
\* gone); and a refresh that follows a refresh of the same, unchanged graph
\* caches a structured schema of the same membership.
RefreshNotCumulative ==
    [][RefreshResolves =>
          /\ NodePropsFromOwn(structuredSchema', rc'.nodeRes)
          /\ RelPropsFromOwn(structuredSchema', rc'.relPropsRes)
          /\ RelationshipsFromOwn(structuredSchema', rc'.relRes)
          /\ RefreshedOnThisGraph =>
                Membership(structuredSchema') = Membership(structuredSchema)]_vars

\* Between two refreshes of an unchanged graph: the first one has cached
\* two labels, a type and triples, and the graph is as it was.
RefreshNotCumulativeWitness ==
    /\ RefreshedOnThisGraph
    /\ Len(structuredSchema.nodeProps) = 2
    /\ Len(structuredSchema.relProps) = 1
    /\ Len(structuredSchema.relationships) >= 2

EmptyRendering ==
    "Node properties are the following:\n\nRelationship properties are the following:\n\nThe relationships are the following:\n"

\* C7: A refresh of a graph without nodes and relationships, each of whose
\* queries is answered with no record, caches empty node properties, empty
\* relationship properties and an empty triple list, and resolves with the
\* schema string holding the three headers, each followed by an empty
\* body.
EmptyGraphRefresh ==
    [][(/\ rc.pc \in {"awaitAll", "awaitEnhance"}
        /\ rc'.pc # rc.pc
        /\ store[rc.g] = EmptyContent
        /\ \A i \in 1..3 : Results[i].state = "fulfilled" /\ Rows(Results[i]) = <<>>) =>
          /\ structuredSchema' = EmptySchema
          /\ \/ rc.pc = "awaitAll" /\ enhancedSchema /\ rc'.pc = "awaitEnhance"
             \/ /\ rc'.pc = "idle"
                /\ ret' = Return("refreshSchema", "ok", 3)
                /\ schema' = EmptyRendering]_vars

\* A refresh of the empty graph has resolved; its node properties response
\* had no data field.
EmptyGraphRefreshWitness ==
    /\ rc.pc = "idle"
    /\ Returned("refreshSchema", "ok")
    /\ store[graph] = EmptyContent
    /\ rc.nodeRes = FulfilledNoData
    /\ \A i \in 1..3 : Results[i].state = "fulfilled" /\ Rows(Results[i]) = <<>>
    /\ cache = <<EmptySchema, EmptyRendering>>

\* The triples of a graph content: for every relationship, every pair of a
\* label of its source and a label of its destination.
TriplesOf(c) ==
    UNION {{[defined |-> TRUE, start |-> s, type |-> e.type, end |-> d] :
                s \in e.src.labels, d \in e.dst.labels} : e \in c.edges}

Triple(s, t, d) == [defined |-> TRUE, start |-> s, type |-> t, end |-> d]

\* One KNOWS relationship from a {Person, Employee} node to a {Person} node.
KnowsExample ==
    LET e == [labels |-> {"Person", "Employee"}, keys |-> {"name"}]
        p == [labels |-> {"Person"}, keys |-> {"name"}]
    IN [nodes |-> {e, p},
        edges |-> {[src |-> e, type |-> "KNOWS", keys |-> {}, dst |-> p]}]

\* C8: A refresh that resolves caches exactly the triples (s, t, d) for
\* which some relationship of type t goes from a node carrying label s to
\* a node carrying label d, each once; for the graph of one KNOWS
\* relationship from a {Person, Employee} node to a {Person} node these
\* are the two triples (Person, KNOWS, Person) and (Employee, KNOWS, Person).
TriplesAreCrossProduct ==
    [][RefreshResolves =>
          /\ Range(structuredSchema'.relationships) = TriplesOf(store[graph])
          /\ Len(structuredSchema'.relationships)
                = Cardinality(TriplesOf(store[graph]))
          /\ store[graph] = KnowsExample =>
                /\ Len(structuredSchema'.relationships) = 2
                /\ Range(structuredSchema'.relationships)
                      = {Triple("Person", "KNOWS", "Person"),
                         Triple("Employee", "KNOWS", "Person")}]_vars

TriplesAreCrossProductWitness ==
    /\ RefreshedOnThisGraph
    /\ store[graph] = KnowsExample
    /\ Range(structuredSchema.relationships)
          = {Triple("Person", "KNOWS", "Person"),
             Triple("Employee", "KNOWS", "Person")}

\* Two Person nodes, with properties {name} and {name, age}.
TwoPersons ==
    [nodes |-> {[labels |-> {"Person"}, keys |-> {"name"}],
                [labels |-> {"Person"}, keys |-> {"name", "age"}]},
     edges |-> {}]

\* C9: After a refresh has resolved, no property list of nodeProps or
\* relProps holds a name twice and the triple list holds no triple twice;
\* cached from two Person nodes with properties {name} and {name, age},
\* nodeProps is the one entry Person with the names {name, age}.
NoDuplicatesCached ==
    Returned("refreshSchema", "ok") =>
        /\ \A i \in 1..Len(structuredSchema.nodeProps) :
              NoDuplicates(structuredSchema.nodeProps[i].props)
        /\ \A i \in 1..Len(structuredSchema.relProps) :
              NoDuplicates(structuredSchema.relProps[i].props)
        /\ NoDuplicates(structuredSchema.relationships)
        /\ NoDuplicates([i \in 1..Len(structuredSchema.nodeProps) |->
                            structuredSchema.nodeProps[i].key])
        /\ (RefreshedOnThisGraph /\ store[graph] = TwoPersons) =>
              /\ Len(structuredSchema.nodeProps) = 1
              /\ structuredSchema.nodeProps[1].key = "Person"
              /\ Len(structuredSchema.nodeProps[1].props) = 2
              /\ Range(structuredSchema.nodeProps[1].props) = {"name", "age"}

NoDuplicatesCachedWitness ==
    /\ RefreshedOnThisGraph
    /\ store[graph] = TwoPersons
    /\ Len(structuredSchema.nodeProps) = 1
    /\ Range(structuredSchema.nodeProps[1].props) = {"name", "age"}

\* The names p1, p2, ... written 'p1, p2, ...'.
RECURSIVE Names(_)
Names(props) ==
    IF props = <<>> THEN ""
    ELSE IF Len(props) = 1 THEN props[1]
    ELSE props[1] \o ", " \o Names(Tail(props))

\* The lines of a section under one another.
RECURSIVE Lines(_)
Lines(ls) ==
    IF ls = <<>> THEN ""
    ELSE IF Len(ls) = 1 THEN ls[1]
    ELSE ls[1] \o "\n" \o Lines(Tail(ls))

\* The rendering the schema string is to have: the three headers, each
\* followed by the lines of its section in the order of the entries.
Rendering(ss) ==
    "Node properties are the following:" \o "\n"
    \o Lines([i \in 1..Len(ss.nodeProps) |->
          ss.nodeProps[i].key \o ": {" \o Names(ss.nodeProps[i].props) \o "}"])
    \o "\n" \o "Relationship properties are the following:" \o "\n"
    \o Lines([i \in 1..Len(ss.relProps) |->
          ss.relProps[i].key \o ": {" \o Names(ss.relProps[i].props) \o "}"])
    \o "\n" \o "The relationships are the following:" \o "\n"
    \o Lines([i \in 1..Len(ss.relationships) |->
          "(:" \o ss.relationships[i].start \o ") -[:"
          \o ss.relationships[i].type \o "]-> (:"
          \o ss.relationships[i].end \o ")"])

\* C10: The schema string of a resolved refresh is the rendering of the
\* cached structured schema and of nothing else: the header 'Node
\* properties are the following:' and one line 'label: {p1, p2, ...}' per
\* nodeProps entry, 'Relationship properties are the following:' and one
\* line 'type: {p1, ...}' per relProps entry, 'The relationships are the
\* following:' and one line '(:start) -[:type]-> (:end)' per triple, joined
\* by newlines in the order of the entries.
SchemaIsRendering ==
    Returned("refreshSchema", "ok") => schema = Rendering(structuredSchema)

SchemaIsRenderingWitness ==
    /\ Returned("refreshSchema", "ok")
    /\ schema = "Node properties are the following:\nPerson: {name, age}\nEmployee: {name}\nRelationship properties are the following:\nKNOWS: {since}\nThe relationships are the following:\n(:Person) -[:KNOWS]-> (:Person)\n(:Employee) -[:KNOWS]-> (:Person)"

\* C11: A refreshSchema call with a graph selected issues its three
\* queries, one per dimension, when it starts; a query that has settled,
\* failed or not, is not issued again while the call waits for the others;
\* and no step of the call changes the data of any graph.
ThreeQueriesOnce ==
    [][/\ (rc.pc = "idle" /\ rc'.pc = "awaitAll") =>
             /\ ~NoGraphSelected
             /\ rc'.g = graph
             /\ \A i \in 1..3 : Results'[i] = Pending
             /\ ret' = Return("refreshSchema", "pending", 3)
       /\ (rc.pc = "awaitAll" /\ rc'.pc = "awaitAll") =>
             /\ \A i \in 1..3 :
                   Results[i].state # "pending" => Results'[i] = Results[i]
             /\ Cardinality({i \in 1..3 : Results'[i] # Results[i]}) <= 1
       /\ rc' # rc => store' = store]_vars

\* The node properties query has failed, the other two have been answered
\* from a graph that holds data, and the call is about to go on.
ThreeQueriesOnceWitness ==
    /\ rc.pc = "awaitAll"
    /\ AllSettled
    /\ FailedQueries = {1}
    /\ Rows(rc.relRes) # <<>>
    /\ store[rc.g] = Created

\* C12: close() of an instance built on a driver the caller supplied
\* leaves that driver's connection as it is, open for whoever else uses
\* the driver; close() of an instance whose driver initialize() created
\* closes that driver's connection.
CloseSparesExternalDriver ==
    [][(ret'.op = "close" /\ ret' # ret) =>
          /\ driver' = driver
          /\ isExternalDriver => connected' = connected
          /\ (~isExternalDriver /\ driver = "internal") => ~connected']_vars

\* An instance on a caller-supplied driver has been closed, and the
\* driver's connection is open.
CloseSparesExternalDriverWitness ==
    /\ Returned("close", "ok")
    /\ isExternalDriver
    /\ driver = "external"
    /\ graph # NoGraph
    /\ connected

\* The constructor's caller or initialize still holds the config.
ConfigHeld == init.pc \in {"new", "initialize", "driver", "verified"}

\* config.host and config.port with the documented defaults.
OptionsOrDefaults(config) ==
    [host |-> IF config.host.defined THEN config.host.value ELSE "localhost",
     port |-> IF config.port.defined THEN config.port.value ELSE 6379]

\* C13: initialize chooses its connection by driver, then url, then host
\* and port. With config.driver it takes that driver and never calls
\* FalkorDB.connect, whatever the other options are; otherwise with
\* config.url it connects with the url and no socket; otherwise it connects
\* with a socket of config.host and config.port, localhost and 6379 where
\* they are not given.
ConnectionSourcePriority ==
    [][/\ isExternalDriver => ~options'.called
       /\ (init.pc = "initialize" /\ init' # init) =>
             /\ init.config.driver =>
                   /\ driver' = "external"
                   /\ options' = NoOptions
                   /\ connected' = connected
             /\ (~init.config.driver /\ init.config.url.given) =>
                   /\ options'.called
                   /\ options'.hasUrl
                   /\ options'.url = init.config.url
                   /\ ~options'.hasSocket
             /\ (~init.config.driver /\ ~init.config.url.given) =>
                   /\ options'.called
                   /\ ~options'.hasUrl
                   /\ options'.hasSocket
                   /\ options'.socket = OptionsOrDefaults(init.config)]_vars

\* initialize connected with the url although host and port were given too.
ConnectionSourcePriorityWitness ==
    /\ init.pc = "driver"
    /\ driver = "internal"
    /\ options.hasUrl
    /\ ~options.hasSocket
    /\ init.config.host = Opt("invalid-host")
    /\ init.config.port = Opt(9999)

\* A config with a redis:// or falkor:// url that writes its port, and no
\* driver.
UrlWithPort(config) ==
    /\ ~config.driver
    /\ config.url.given
    /\ config.url.scheme \in {"redis", "falkor"}
    /\ config.url.digits # <<>>

\* 'http://<host>:<port>'
HttpUrl(h, p) == "http://" \o h \o ":" \o ToString(p)

IsPrefix(s, t) == Len(s) <= Len(t) /\ s = SubSeq(t, 1, Len(s))

\* Result i answers query i of the list, for every result there is.
ResultsMatch(e) ==
    /\ Len(e.results) <= Len(e.qs)
    /\ \A i \in 1..Len(e.results) : e.results[i].query = e.qs[i]

\* C15: executeQueries issues its queries one at a time in list order, each
\* after the one before it has completed. When all succeed it returns as
\* many results as queries, the i-th answering the i-th query. When the
\* i-th fails it rejects with an error naming that query, having issued the
\* first i queries and none of the later ones.
QueriesInOrder ==
    [][/\ eq'.pc # "idle" =>
             /\ IsPrefix(eq'.issued, eq'.qs)
             /\ ResultsMatch(eq')
             /\ eq'.pc = "loop" => Len(eq'.issued) = Len(eq'.results)
             /\ eq'.pc = "await" => Len(eq'.issued) = Len(eq'.results) + 1
       /\ (eq.pc # "idle" /\ eq'.issued # eq.issued) => eq'.pc # "loop"
       /\ (eq.pc # "idle" /\ ret' # ret /\ ret'.status = "ok") =>
             /\ eq.issued = eq.qs
             /\ Len(eq.results) = Len(eq.qs)
             /\ ResultsMatch(eq)
             /\ eq'.pc = "idle"
       /\ (eq.pc # "idle" /\ ret' # ret /\ ret'.status = "failed") =>
             /\ ret'.query = eq.qs[Len(eq.results) + 1]
             /\ eq.issued = SubSeq(eq.qs, 1, Len(eq.results) + 1)
             /\ eq'.pc = "idle"]_vars

\* The second query of a list failed after the first had created the
\* nodes: the error names it.
QueriesInOrderWitness ==
    /\ Returned("executeQueries", "failed")
    /\ ret.query = ReadText
    /\ ret.sent = 2
    /\ store[graph] = Created

\* The operations other than refreshSchema that reach the database.
OtherOps ==
    {"query", "executeQueries", "clearGraph", "selectGraph",
     "verifyConnectivity"}

SchemaOf(c) ==
    BuildStructuredSchema(Catch(c.nodeRes), Catch(c.relPropsRes),
                          Catch(c.relRes))

\* The normalisation of the responses held by call c throws.
NormaliseThrows(c) ==
    \/ PromiseAllRejects(Catch(c.nodeRes), Catch(c.relPropsRes),
                         Catch(c.relRes))
    \/ BuildThrows(Catch(c.nodeRes), Catch(c.relPropsRes))

\* A step on which the refreshSchema call in flight settles.
RefreshSettles ==
    /\ rc.pc # "idle"
    /\ rc'.pc = "idle"

\* C17: Enhanced mode changes nothing of the outcome: with enhancedSchema
\* true as with false a refreshSchema call issues the three queries, and
\* the schema it leaves cached and whether it resolves are the same
\* function of the three responses, the structured schema they normalise
\* to and its rendering.
EnhancedIsNoOp ==
    [][/\ (rc.pc = "idle" /\ rc'.pc # "idle") =>
             /\ rc'.pc = "awaitAll"
             /\ ret' = Return("refreshSchema", "pending", 3)
       /\ RefreshSettles =>
             /\ Returned("refreshSchema", "ok")' <=>
                   (~NormaliseThrows(rc) /\ ~FormatThrows(SchemaOf(rc)))
             /\ Returned("refreshSchema", "ok")' =>
                   cache' = <<SchemaOf(rc), FormatSchema(SchemaOf(rc))>>
             /\ ~Returned("refreshSchema", "ok")' =>
                   /\ Returned("refreshSchema", "failed")'
                   /\ schema' = rc.before[2]
                   /\ structuredSchema' = IF NormaliseThrows(rc)
                                          THEN rc.before[1] ELSE SchemaOf(rc)]_vars

\* An enhanced instance has refreshed the schema of the created data.
EnhancedIsNoOpWitness ==
    /\ enhancedSchema
    /\ Returned("refreshSchema", "ok")
    /\ store[graph] = Created
    /\ Len(structuredSchema.relationships) = 4
    /\ schema = FormatSchema(structuredSchema)

\* C18 as stated: once close() has returned, the instance holds the empty
\* structured schema and the empty schema string.
ClosedDiscardsCache == Returned("close", "ok") => cache = <<EmptySchema, "">>

\* C18: Closing the session does not discard the cached schema: close()
\* changes neither the structured schema nor the schema string, and after
\* it getStructuredSchema() and getSchema() return what they returned
\* before it.
CloseKeepsCache ==
    [][(ret' # ret /\ ret'.op = "close") => cache' = cache]_vars

\* An instance closed its own connection and still holds the schema it
\* had refreshed.
CloseKeepsCacheWitness ==
    /\ Returned("close", "ok")
    /\ ~connected
    /\ structuredSchema.relationships # <<>>
    /\ schema = FormatSchema(structuredSchema)

\* The queries of the call in flight that have not settled yet.
InFlight == {i \in 1..3 : Results[i].state = "pending"}

\* C19: Within one refreshSchema call the responses are normalised and the
\* cache replaced only once all three queries have settled, each answered
\* or failed, in whatever order they settle: while any of them is in flight
\* no step writes the structured schema or the schema string, and the
\* structured schema written is the one all three responses normalise to.
CacheAfterAllSettled ==
    [][/\ (rc.pc = "awaitAll" /\ InFlight # {}) => cache' = cache
       /\ structuredSchema' # structuredSchema =>
             /\ rc.pc = "awaitAll"
             /\ InFlight = {}
             /\ structuredSchema' = SchemaOf(rc)
       /\ schema' # schema =>
             /\ rc.pc \in {"awaitAll", "awaitEnhance"}
             /\ InFlight = {}]_vars

\* The relationships query was answered first and the node properties query
\* is still in flight: the cache is as it was when the call began.
CacheAfterAllSettledWitness ==
    /\ rc.pc = "awaitAll"
    /\ InFlight = {1}
    /\ Rows(rc.relRes) # <<>>
    /\ rc.relPropsRes.state = "rejected"
    /\ cache = rc.before
    /\ structuredSchema.relationships = <<>>

\* Both overlapping calls have settled and the cache has been written.
BothSettled ==
    /\ rc.pc = "idle"
    /\ rc2.pc = "done"
    /\ cache # <<EmptySchema, "">>

\* C20: When two refreshSchema calls on one instance overlap, every write
\* of the structured schema is the whole schema one of the two calls
\* computed from its own three responses, never a mix, and once both have
\* settled the schema string is the rendering of the structured schema then
\* cached, that of the last call to write.
OverlapLastWriterWins ==
    /\ [][structuredSchema' # structuredSchema =>
             \/ rc.pc = "awaitAll" /\ structuredSchema' = SchemaOf(rc)
             \/ rc2.pc = "awaitAll" /\ structuredSchema' = SchemaOf(rc2)]_vars
    /\ [](BothSettled =>
             /\ ~FormatThrows(structuredSchema)
             /\ schema = FormatSchema(structuredSchema))

\* The moves initialize makes from one of its places to the next.
InitMoves ==
    { <<"initialize", "driver">>, <<"driver", "verified">>,
      <<"verified", "resolved">>, <<"initialize", "rejected">>,
      <<"driver", "rejected">>, <<"verified", "rejected">> }

\* C21: initialize obtains the driver (connects, or takes the one supplied),
\* then verifies connectivity, then selects config.graph when one is given
\* and no graph otherwise. The instance it resolves with has isConnected()
\* true and hasSelectedGraph() true exactly when config.graph was given.
\* When a step fails no later step is performed (no driver is set after a
\* failed connect, no graph is selected after a failed verification or
\* selection, and nothing follows the rejection) and the error starts with
\* 'Failed to connect to FalkorDB at <host>:<port>'.
InitializeInOrder ==
    [][/\ init' # init =>
             /\ <<init.pc, init'.pc>> \in InitMoves
             /\ init'.pc = "driver" => (IsConnected' /\ ~HasSelectedGraph')
             /\ init'.pc = "verified" =>
                   (IsConnected /\ connected /\ ~HasSelectedGraph'
                      /\ driver' = driver)
             /\ init'.pc = "resolved" =>
                   /\ IsConnected'
                   /\ HasSelectedGraph' <=> init.config.graph # NoGraph
                   /\ HasSelectedGraph' => graph' = init.config.graph
                   /\ ret' = Return("initialize", "ok", 0)
             /\ init'.pc = "rejected" =>
                   /\ graph' = graph
                   /\ driver' = driver
                   /\ ~HasSelectedGraph'
                   /\ ret'.op = "initialize"
                   /\ ret'.status = "failed"
                   /\ ret'.message =
                         "Failed to connect to FalkorDB at " \o host \o ":"
                            \o ToString(port)
       /\ init.pc = "rejected" => UNCHANGED vars
       /\ (init.pc \in {"initialize", "driver"}) => graph' = NoGraph]_vars

\* initialize connected by the url, then failed at a later step: the error
\* names the host and port read off the url.
InitializeInOrderWitness ==
    /\ init.pc = "rejected"
    /\ driver = "internal"
    /\ options.hasUrl
    /\ ret.message = "Failed to connect to FalkorDB at db.example:7001"

SchemaOfContent(c) ==
    BuildStructuredSchema(Fulfilled(NodePropertiesQuery(c, FirstOrder)),
                          Fulfilled(RelPropertiesQuery(c, FirstOrder)),
                          Fulfilled(RelQuery(c, FirstOrder)))

\* C23: A selectGraph call that fails, for want of a driver or because the
\* driver's selectGraph throws, leaves the selected graph as it was; one
\* that succeeds makes the graph it names the selected one, and nothing
\* else changes the selection. Every query and clearGraph acts on the graph
\* selected when it is called and on no other, and a refreshSchema caches
\* the schema of that graph.
SelectGraphRedirects ==
    [][/\ (ret' # ret /\ ret'.op = "selectGraph" /\ ret'.status = "failed") =>
             graph' = graph
       /\ (ret' # ret /\ ret'.op = "selectGraph" /\ ret'.status = "ok") =>
             graph' = ret'.graphName
       /\ graph' # graph =>
             /\ Returned("selectGraph", "ok")'
             /\ graph' = ret'.graphName
       /\ \A g \in TwoGraphs : g # graph => store'[g] = store[g]
       /\ (ret' # ret /\ Returned("clearGraph", "ok")') =>
             store'[graph] = EmptyContent
       /\ (ret' # ret /\ Returned("query", "ok")') =>
             store'[graph] \in {Apply(q, store[graph]) : q \in Queries}
       /\ cache' # cache =>
             /\ rc'.g = graph
             /\ Membership(structuredSchema') =
                   Membership(SchemaOfContent(store[graph]))]_vars

\* The instance refreshed and then cleared the first graph, switched to the
\* second and created the data there; a later selectGraph has failed and
\* the second graph is still the selected one.
SelectGraphRedirectsWitness ==
    /\ Returned("selectGraph", "failed")
    /\ graph = OtherGraph
    /\ store[OtherGraph] = Created
    /\ \A g \in GraphNames : store[g] = EmptyContent
    /\ structuredSchema.relationships # <<>>

\* C24: Every connection initialize opens itself is handed to the caller in
\* the resolved instance or closed before initialize rejects: once
\* initialize has rejected, no connection it opened is still open.
NoConnectionLeaked ==
    init.pc = "rejected" => ~(driver = "internal" /\ connected)

====
